---- MODULE Spec2Model ----
(***************************************************************************)
(* A model of DataProcessor (datacleaning.py): the table read from the     *)
(* input CSV, the cleaning transform clean_data (drop_duplicates, fillna,  *)
(* round/astype(int), to_datetime), the reporting stages and run_pipeline. *)
(*                                                                         *)
(* A cell is a tagged record: a string, a number (an exact rational n/d in *)
(* lowest terms, which is what the float64 holds for the small values used *)
(* here), a Timestamp, or one of pandas' two missing markers NaN and NaT.  *)
(* A DataFrame is its index labels and its rows, both in order.            *)
(***************************************************************************)
EXTENDS Integers, Sequences, FiniteSets, TLC

VARIABLES file, raw_df, cleaned_df, outputs, called, raised

vars == <<file, raw_df, cleaned_df, outputs, called, raised>>

\* Largest number of data rows of an input file: under SpecClean, under Spec
\* and under SpecMean.
MaxRows == 3
MaxPipelineRows == 2
MaxMeanRows == 4

--------------------------------------------------------------------------
\* Cells

None == [t |-> "None"]
NaN == [t |-> "NaN"]
NaT == [t |-> "NaT"]
Str(s) == [t |-> "str", s |-> s]
Timestamp(y, m, d) == [t |-> "Timestamp", y |-> y, m |-> m, d |-> d]

RECURSIVE Gcd(_, _)
Gcd(a, b) == IF b = 0 THEN a ELSE Gcd(b, a % b)

Abs(n) == IF n < 0 THEN -n ELSE n

\* The number n/d (d > 0), in lowest terms.
Num(n, d) ==
  LET g == Gcd(Abs(n), d)
  IN  [t |-> "num", n |-> n \div g, d |-> d \div g]

\* pandas.isna: NaN and NaT are both missing.
isna(c) == c.t \in {"NaN", "NaT"}

Columns == {"Name", "Email", "PhoneNumber", "Age", "Country", "Salary", "JoiningDate"}

--------------------------------------------------------------------------
\* DataFrame

DataFrame(index, rows) == [t |-> "DataFrame", index |-> index, rows |-> rows]

\* The positions of a frame, in order.
Pos(df) == 1..Len(df.rows)

Column(df, c) == [k \in Pos(df) |-> df.rows[k][c]]

\* df with column c replaced by the cells col.
SetColumn(df, c, col) ==
  DataFrame(df.index, [k \in Pos(df) |-> [df.rows[k] EXCEPT ![c] = col[k]]])

\* The positions kept, in order: those of seq satisfying Keep.
RECURSIVE KeptPositions(_, _, _)
KeptPositions(rows, k, seen) ==
  IF k > Len(rows) THEN <<>>
  ELSE IF rows[k] \in seen THEN KeptPositions(rows, k + 1, seen)
  ELSE <<k>> \o KeptPositions(rows, k + 1, seen \cup {rows[k]})

\* Variant of drop_duplicates with keep='last'.
drop_duplicates_keep_last(df) ==
  LET kept == SelectSeq([k \in Pos(df) |-> k],
                        LAMBDA k : \A j \in Pos(df) : j > k => df.rows[j] # df.rows[k])
  IN  DataFrame([k \in 1..Len(kept) |-> df.index[kept[k]]],
                [k \in 1..Len(kept) |-> df.rows[kept[k]]])

\* DataFrame.drop_duplicates(): the first row of each group of rows equal in
\* every column is kept (missing cells compare equal), with its index label.
drop_duplicates(df) ==
  LET kept == KeptPositions(df.rows, 1, {})
  IN  DataFrame([k \in 1..Len(kept) |-> df.index[kept[k]]],
                [k \in 1..Len(kept) |-> df.rows[kept[k]]])

\* Sum and count of the non-missing cells of a numeric column.
RECURSIVE NumSum(_, _)
NumSum(col, k) ==
  IF k > Len(col) THEN Num(0, 1)
  ELSE LET rest == NumSum(col, k + 1)
           c == col[k]
       IN  IF isna(c) THEN rest
           ELSE Num(c.n * rest.d + rest.n * c.d, c.d * rest.d)

NumCount(col) == Cardinality({k \in 1..Len(col) : ~isna(col[k])})

\* Series.mean(): the mean of the non-missing cells, NaN when there is none.
mean(col) ==
  LET s == NumSum(col, 1)
      n == NumCount(col)
  IN  IF n = 0 THEN NaN ELSE Num(s.n, s.d * n)

\* Series.round(): a number to the nearest integer, a half to the even one
\* (numpy's rule); a missing cell stays missing.
RoundHalfEven(c) ==
  LET q == c.n \div c.d
      r == c.n % c.d
  IN  IF 2 * r < c.d THEN Num(q, 1)
      ELSE IF 2 * r > c.d THEN Num(q + 1, 1)
      ELSE IF q % 2 = 0 THEN Num(q, 1) ELSE Num(q + 1, 1)

round(col) == [k \in 1..Len(col) |-> IF isna(col[k]) THEN col[k] ELSE RoundHalfEven(col[k])]

\* int(x): the fraction is dropped (towards zero).
ToInt(c) == IF c.n >= 0 THEN Num(c.n \div c.d, 1) ELSE Num(-((-c.n) \div c.d), 1)

\* Series.astype(int): raises on a column that holds a missing cell
\* ("Cannot convert non-finite values (NA or inf) to integer").
astype_int(col) ==
  IF \E k \in 1..Len(col) : isna(col[k])
    THEN [raised |-> TRUE, col |-> col]
    ELSE [raised |-> FALSE, col |-> [k \in 1..Len(col) |-> ToInt(col[k])]]

--------------------------------------------------------------------------
\* Dates

\* What the text of a date string says: year, month and day of the strings
\* written YYYY-MM-DD. Any other string has no such reading.
IsoText ==
  [s \in {"2024-03-01", "2025-01-04", "2024-02-30"} |->
     CASE s = "2024-03-01" -> <<2024, 3, 1>>
       [] s = "2025-01-04" -> <<2025, 1, 4>>
       [] s = "2024-02-30" -> <<2024, 2, 30>>]

IsLeap(y) == (y % 4 = 0 /\ y % 100 # 0) \/ y % 400 = 0

DaysInMonth(y, m) ==
  IF m = 2 THEN (IF IsLeap(y) THEN 29 ELSE 28)
  ELSE IF m \in {4, 6, 9, 11} THEN 30 ELSE 31

\* Parsing one string: a Timestamp when it reads as a date of the calendar,
\* and no result otherwise.
ParseDate(s) ==
  IF s \notin DOMAIN IsoText THEN NaT
  ELSE LET f == IsoText[s]
       IN  IF f[2] \in 1..12 /\ f[3] \in 1..DaysInMonth(f[1], f[2])
             THEN Timestamp(f[1], f[2], f[3])
             ELSE NaT

\* Variant of to_datetime with errors='ignore': what does not parse is
\* handed back as it is.
to_datetime_ignore(c) ==
  CASE c.t = "Timestamp" -> c
    [] c.t = "str" -> (IF ParseDate(c.s) = NaT THEN c ELSE ParseDate(c.s))
    [] OTHER -> NaT

\* pd.to_datetime(cell, errors='coerce'): a Timestamp is kept, a string is
\* parsed, and whatever does not parse (a missing cell included) is NaT.
to_datetime(c) ==
  CASE c.t = "Timestamp" -> c
    [] c.t = "str" -> ParseDate(c.s)
    [] OTHER -> NaT

--------------------------------------------------------------------------
\* clean_data

\* The fill value of each column, computed from the frame it is given.
fill_values(df) ==
  [Name |-> Str("Unknown"),
   Email |-> Str("missing@email.com"),
   PhoneNumber |-> Str("Unavailable"),
   Age |-> mean(Column(df, "Age")),
   Country |-> Str("Unknown"),
   Salary |-> mean(Column(df, "Salary")),
   JoiningDate |-> to_datetime(Str("2025-01-04"))]

\* DataFrame.fillna(value=values): every missing cell takes its column's
\* value (a value that is itself NaN leaves the cell missing).
fillna(df, values) ==
  DataFrame(df.index,
            [k \in Pos(df) |->
               [c \in Columns |-> IF isna(df.rows[k][c]) THEN values[c] ELSE df.rows[k][c]]])

\* Variant of to_integer_column that checks for missing cells and converts
\* nothing (astype(float) for astype(int), and no round()).
to_integer_column_uncast(col) ==
  [raised |-> \E k \in 1..Len(col) : isna(col[k]), col |-> col]

\* .round().astype(int) on a numeric column (lines 63 and 64).
to_integer_column(col) == astype_int(round(col))

\* Lines 63-65 on the frame df: Age, then Salary, then JoiningDate. A cast
\* that raises leaves the frame as it stood before that line.
Normalize(df) ==
  LET age == to_integer_column(Column(df, "Age"))
      df3 == SetColumn(df, "Age", age.col)
      sal == to_integer_column(Column(df3, "Salary"))
      df4 == SetColumn(df3, "Salary", sal.col)
      df5 == SetColumn(df4, "JoiningDate",
                       [k \in Pos(df4) |-> to_datetime(df4.rows[k]["JoiningDate"])])
  IN  IF age.raised THEN [raised |-> TRUE, df |-> df]
      ELSE IF sal.raised THEN [raised |-> TRUE, df |-> df3]
      ELSE [raised |-> FALSE, df |-> df5]

\* Variant of Cleaning whose fill values are computed before the duplicates
\* are dropped.
Cleaning_fill_values_first(df0) ==
  Normalize(fillna(drop_duplicates(df0), fill_values(df0)))

\* Lines 50-65 on the local frame: duplicates dropped, the missing cells
\* filled with the values computed from the frame without duplicates, then
\* the three columns converted. The result is the frame reached and whether
\* a cast raised on the way.
Cleaning(df0) ==
  LET df1 == drop_duplicates(df0)
  IN  Normalize(fillna(df1, fill_values(df1)))

\* Variant of clean_data without the copy of line 49: the in-place calls
\* then work on raw_df itself.
clean_data_in_place(self) ==
  IF self.raw_df = None THEN self
  ELSE LET r == Cleaning(self.raw_df)
       IN  IF r.raised
             THEN [self EXCEPT !.raw_df = r.df, !.raised = TRUE]
             ELSE [self EXCEPT !.raw_df = r.df, !.cleaned_df = r.df]

\* Variant of clean_data that binds self.cleaned_df to the frame before the
\* casts instead of after them.
clean_data_assign_early(self) ==
  IF self.raw_df = None THEN self
  ELSE LET r == Cleaning(self.raw_df)
       IN  IF r.raised
             THEN [self EXCEPT !.cleaned_df = r.df, !.raised = TRUE]
             ELSE [self EXCEPT !.cleaned_df = r.df]

\* clean_data: nothing without raw_df; otherwise the cleaning of a copy of
\* raw_df, bound to cleaned_df on the last line, which a cast that raises
\* does not reach.
clean_data(self) ==
  IF self.raw_df = None THEN self
  ELSE LET r == Cleaning(self.raw_df)
       IN  IF r.raised
             THEN [self EXCEPT !.raised = TRUE]
             ELSE [self EXCEPT !.cleaned_df = r.df]

--------------------------------------------------------------------------
\* The input file, load_data and the reporting stages

FileNotFound == [t |-> "FileNotFound"]

\* A CSV file with a header row and the data rows given (an empty field is
\* read as NaN).
CsvFile(rows) == [t |-> "csv", rows |-> rows]

\* pd.read_csv: the rows of the file under the labels 0, 1, 2, ...
read_csv(f) == DataFrame([k \in 1..Len(f.rows) |-> k - 1], f.rows)

\* Variant of load_data that answers a missing file with an empty frame.
load_data_empty_frame(self, f) ==
  IF f = FileNotFound
    THEN [self EXCEPT !.raw_df = DataFrame(<<>>, <<>>)]
    ELSE [self EXCEPT !.raw_df = read_csv(f)]

\* load_data: a missing file is reported, not raised, and leaves raw_df None.
load_data(self, f) ==
  IF f = FileNotFound
    THEN [self EXCEPT !.raw_df = None]
    ELSE [self EXCEPT !.raw_df = read_csv(f)]

create_static_visualizations(self) ==
  IF self.cleaned_df = None THEN self
  ELSE [self EXCEPT !.outputs = @ \cup {"visualizations"}]

create_interactive_dashboard(self) ==
  IF self.cleaned_df = None THEN self
  ELSE [self EXCEPT !.outputs = @ \cup {"dashboard"}]

\* generate_pdf_report: nothing without cleaned_df. The summary takes
\* len(self.raw_df) (line 158), which raises when raw_df is None; the chart
\* images are embedded after it, and pdf.image raises when they have not
\* been written. The report is written on the last line only.
generate_pdf_report(self) ==
  IF self.cleaned_df = None THEN self
  ELSE IF self.raw_df = None THEN [self EXCEPT !.raised = TRUE]
  ELSE IF "visualizations" \notin self.outputs THEN [self EXCEPT !.raised = TRUE]
  ELSE [self EXCEPT !.outputs = @ \cup {"report"}]

save_cleaned_data(self) ==
  IF self.cleaned_df # None
    THEN [self EXCEPT !.outputs = @ \cup {"cleaned_csv"}]
    ELSE self

\* run_pipeline from line 206, 205, 204 and 203 on: a stage that raised
\* ends the method, so the stages after it do not run.
pipeline_from_save(self) ==
  IF self.raised THEN self ELSE save_cleaned_data(self)

pipeline_from_report(self) ==
  IF self.raised THEN self ELSE pipeline_from_save(generate_pdf_report(self))

pipeline_from_dashboard(self) ==
  IF self.raised THEN self ELSE pipeline_from_report(create_interactive_dashboard(self))

pipeline_from_visualizations(self) ==
  IF self.raised THEN self ELSE pipeline_from_dashboard(create_static_visualizations(self))

\* run_pipeline: the five stages in order, when raw_df is set.
run_pipeline(self) ==
  IF self.raw_df # None
    THEN pipeline_from_visualizations(clean_data(self))
    ELSE self

--------------------------------------------------------------------------
\* Input files

BaseRow ==
  [Name |-> Str("Ann"), Email |-> Str("ann@example.com"),
   PhoneNumber |-> Str("555-0100"), Age |-> Num(30, 1), Country |-> Str("France"),
   Salary |-> Num(50000, 1), JoiningDate |-> Str("2024-03-01")]

\* The other cells a column takes in the input rows.
OtherCells ==
  [Name |-> {NaN, Str("Unknown")},
   Email |-> {NaN},
   PhoneNumber |-> {NaN},
   Age |-> {NaN, Num(20, 1), Num(61, 2)},
   Country |-> {NaN},
   Salary |-> {NaN, Num(50001, 1)},
   JoiningDate |-> {NaN, Str("not-a-date"), Str("2024-02-30")}]

\* The input rows: BaseRow, and BaseRow with one cell replaced.
InputRows ==
  {BaseRow} \cup {[BaseRow EXCEPT ![c] = v] : <<c, v>> \in
                    UNION {{<<c, v>> : v \in OtherCells[c]} : c \in Columns}}

\* The input rows that differ from BaseRow in Age or Salary at most.
NumericInputRows ==
  {r \in InputRows : \A c \in Columns \ {"Age", "Salary"} : r[c] = BaseRow[c]}

Tables(rows, n) == UNION {[1..k -> rows] : k \in 0..n}

Files(rows, n) == {FileNotFound} \cup {CsvFile(t) : t \in Tables(rows, n)}

--------------------------------------------------------------------------
\* The DataProcessor object

Self == [raw_df |-> raw_df, cleaned_df |-> cleaned_df, outputs |-> outputs, raised |-> FALSE]

\* A call of a method: the object after it, and whether it raised.
Call(name, after) ==
  /\ raw_df' = after.raw_df
  /\ cleaned_df' = after.cleaned_df
  /\ outputs' = after.outputs
  /\ raised' = after.raised
  /\ called' = name
  /\ UNCHANGED file

\* __init__: both frames None, then load_data.
Constructed(f) ==
  /\ file = f
  /\ raw_df = load_data([raw_df |-> None, cleaned_df |-> None, outputs |-> {},
                         raised |-> FALSE], f).raw_df
  /\ cleaned_df = None
  /\ outputs = {}
  /\ called = "__init__"
  /\ raised = FALSE

Init == \E f \in Files(InputRows, MaxPipelineRows) : Constructed(f)

InitClean == \E f \in Files(InputRows, MaxRows) : Constructed(f)

InitMean == \E f \in Files(NumericInputRows, MaxMeanRows) : Constructed(f)

LoadData == Call("load_data", load_data(Self, file))

CleanData == Call("clean_data", clean_data(Self))

CreateStaticVisualizations ==
  Call("create_static_visualizations", create_static_visualizations(Self))

CreateInteractiveDashboard ==
  Call("create_interactive_dashboard", create_interactive_dashboard(Self))

GeneratePdfReport == Call("generate_pdf_report", generate_pdf_report(Self))

SaveCleanedData == Call("save_cleaned_data", save_cleaned_data(Self))

RunPipeline == Call("run_pipeline", run_pipeline(Self))

\* The input file is removed from the disk between two calls: the object is
\* as it was, and the next load_data finds no file.
DeleteFile ==
  /\ file # FileNotFound
  /\ file' = FileNotFound
  /\ UNCHANGED <<raw_df, cleaned_df, outputs, called, raised>>

Next ==
  \/ LoadData
  \/ CleanData
  \/ CreateStaticVisualizations
  \/ CreateInteractiveDashboard
  \/ GeneratePdfReport
  \/ SaveCleanedData
  \/ RunPipeline
  \/ DeleteFile

NextClean ==
  \/ LoadData
  \/ CleanData

\* The whole object, on the files of at most MaxPipelineRows rows, which can
\* disappear after they were read.
Spec == Init /\ [][Next]_vars

\* load_data and clean_data alone, on the files of at most MaxRows rows.
SpecClean == InitClean /\ [][NextClean]_vars

\* load_data and clean_data alone, on the files of at most MaxMeanRows rows
\* that vary in Age and Salary.
SpecMean == InitMean /\ [][NextClean]_vars

--------------------------------------------------------------------------
\* Properties

Cleaned == cleaned_df # None

\* The row of raw_df behind position k of cleaned_df (its index label).
RawRow(k) == raw_df.rows[cleaned_df.index[k] + 1]

NumericColumns == {"Age", "Salary"}

\* C1: after clean_data no cell of the cleaned table, in any of the seven
\* columns, is missing -- the rows whose JoiningDate did not parse included.
C1_NoMissingCell ==
  Cleaned => \A k \in Pos(cleaned_df) : \A c \in Columns : ~isna(cleaned_df.rows[k][c])

\* C2: no two rows of the cleaned table are equal in all seven columns
\* (the table as it stands after deduplication, imputation and conversion).
C2_NoEqualRows ==
  Cleaned => \A i, j \in Pos(cleaned_df) : i # j => cleaned_df.rows[i] # cleaned_df.rows[j]

\* C3: the cleaned table has at most as many rows as the raw table and as
\* many as the raw table has distinct rows; the rows kept are the first
\* occurrence of each distinct row, in their order in the raw table.
C3_FirstOccurrencesKept ==
  Cleaned =>
    /\ Len(cleaned_df.rows) <= Len(raw_df.rows)
    /\ Len(cleaned_df.rows) = Cardinality({raw_df.rows[k] : k \in Pos(raw_df)})
    /\ \A i \in Pos(cleaned_df) :
         \A k \in 1..cleaned_df.index[i] : raw_df.rows[k] # RawRow(i)
    /\ \A i, j \in Pos(cleaned_df) : i < j => cleaned_df.index[i] < cleaned_df.index[j]

\* A raw table with a repeated row between two other rows has been cleaned.
C3_Witness ==
  /\ Cleaned
  /\ Len(cleaned_df.rows) >= 2
  /\ Len(cleaned_df.rows) < Len(raw_df.rows)
  /\ \E k \in Pos(raw_df) : k < Len(raw_df.rows) /\ raw_df.rows[k] = raw_df.rows[Len(raw_df.rows)]

\* C4: cleaning the cleaned table again gives the same table: no row is
\* removed and no cell changes.
C4_Idempotent ==
  Cleaned => ~Cleaning(cleaned_df).raised /\ Cleaning(cleaned_df).df = cleaned_df

\* Twice the number in a cell of the raw table (a whole or a half number).
Twice(c) == (2 * c.n) \div c.d

RECURSIVE TwiceSum(_, _)
TwiceSum(col, k) ==
  IF k = 0 THEN 0
  ELSE TwiceSum(col, k - 1) + (IF isna(col[k]) THEN 0 ELSE Twice(col[k]))

\* The raw cells of column c in the rows kept.
KeptRaw(c) == [k \in Pos(cleaned_df) |-> RawRow(k)[c]]

\* v is an integer nearest to the mean of the non-missing cells of col.
NearestToMean(v, col) ==
  LET n == Cardinality({k \in 1..Len(col) : ~isna(col[k])})
      d == 2 * n * v.n - TwiceSum(col, Len(col))
  IN  v.t = "num" /\ v.d = 1 /\ n > 0 /\ d <= n /\ -d <= n

AgesAre(df, ages) ==
  Len(df.rows) = Len(ages) /\ \A k \in 1..Len(ages) : df.rows[k]["Age"] = ages[k]

\* C5: a cell that was missing in Age or Salary holds the rounded mean of
\* the non-missing cells of its column in the table without duplicates:
\* ages 20, 30, missing give 25, and 30, 30, missing (the two 30s in equal
\* rows) give two rows, the second with 30.
C5_ImputedRoundedMean ==
  Cleaned =>
    /\ \A c \in NumericColumns : \A k \in Pos(cleaned_df) :
         isna(RawRow(k)[c]) => NearestToMean(cleaned_df.rows[k][c], KeptRaw(c))
    /\ AgesAre(raw_df, <<Num(20, 1), Num(30, 1), NaN>>)
         => AgesAre(cleaned_df, <<Num(20, 1), Num(30, 1), Num(25, 1)>>)
    /\ (AgesAre(raw_df, <<Num(30, 1), Num(30, 1), NaN>>) /\ raw_df.rows[1] = raw_df.rows[2])
         => AgesAre(cleaned_df, <<Num(30, 1), Num(30, 1)>>)

\* A missing Age has been filled in a table whose mean changes with the
\* duplicates: 30, 30 (equal rows), 20, missing.
C5_Witness ==
  /\ Cleaned
  /\ AgesAre(raw_df, <<Num(30, 1), Num(30, 1), Num(20, 1), NaN>>)
  /\ raw_df.rows[1] = raw_df.rows[2]
  /\ AgesAre(cleaned_df, <<Num(30, 1), Num(20, 1), Num(25, 1)>>)

\* C6: raw_df is the table load_data read, whatever has been called since:
\* it is the table of the file as long as the file is there, and no call
\* but load_data changes it.
C6_RawUntouched ==
  /\ [](file # FileNotFound
          => raw_df = DataFrame([k \in 1..Len(file.rows) |-> k - 1], file.rows))
  /\ [][raw_df' # raw_df => called' = "load_data"]_vars

\* The whole pipeline has run on a table that cleaning changes.
C6_Witness ==
  /\ Cleaned
  /\ raw_df # None
  /\ called = "save_cleaned_data"
  /\ outputs = {"visualizations", "dashboard", "report", "cleaned_csv"}
  /\ Len(cleaned_df.rows) < Len(raw_df.rows)
  /\ \E k \in Pos(cleaned_df) : cleaned_df.rows[k] # RawRow(k)

\* C7: with the input file missing, load_data leaves raw_df unset and does
\* not raise; run_pipeline on an unset raw_df changes neither cleaned_df nor
\* the outputs and does not raise; and as long as nothing was ever loaded
\* (a cleaned_df can only come from a loaded table) cleaned_df is unset and
\* no visualization, dashboard, report or cleaned CSV exists.
C7_MissingFileSkipsAll ==
  /\ [][(file = FileNotFound /\ called' = "load_data")
          => (raw_df' = None /\ ~raised')]_vars
  /\ [][(raw_df = None /\ called' = "run_pipeline")
          => (cleaned_df' = cleaned_df /\ outputs' = outputs /\ ~raised')]_vars
  /\ []((file = FileNotFound /\ raw_df = None /\ cleaned_df = None)
          => (outputs = {} /\ ~raised))

\* run_pipeline has been called on an object constructed on a missing file.
C7_Witness ==
  /\ file = FileNotFound
  /\ called = "run_pipeline"
  /\ raw_df = None
  /\ cleaned_df = None
  /\ outputs = {}

HasValue(df, c) == \E k \in Pos(df) : ~isna(df.rows[k][c])

\* C8: a JoiningDate that does not parse does not make clean_data raise, and
\* in the cleaned table every JoiningDate is a Timestamp or NaT, NaT where
\* the raw cell was such a string.
C8_UnparseableDateCoerced ==
  /\ Cleaned => \A k \in Pos(cleaned_df) :
       /\ cleaned_df.rows[k]["JoiningDate"].t \in {"Timestamp", "NaT"}
       /\ RawRow(k)["JoiningDate"] = Str("not-a-date")
            => cleaned_df.rows[k]["JoiningDate"] = NaT
  /\ (called = "clean_data" /\ raw_df # None
        /\ HasValue(raw_df, "Age") /\ HasValue(raw_df, "Salary"))
       => ~raised /\ Cleaned

\* clean_data has returned on a table with the JoiningDate "not-a-date".
C8_Witness ==
  /\ Cleaned
  /\ called = "clean_data"
  /\ ~raised
  /\ \E k \in Pos(cleaned_df) :
       RawRow(k)["JoiningDate"] = Str("not-a-date") /\ cleaned_df.rows[k]["JoiningDate"] = NaT

IsInteger(c) == c.t = "num" /\ c.d = 1

\* C9: every Age and every Salary of the cleaned table is an integer.
C9_IntegerColumns ==
  Cleaned => \A k \in Pos(cleaned_df) : \A c \in NumericColumns : IsInteger(cleaned_df.rows[k][c])

\* A missing Age has been filled from a mean that is no integer, in a table
\* that also had an Age that was no integer.
C9_Witness ==
  /\ Cleaned
  /\ \E k \in Pos(cleaned_df) :
       /\ isna(RawRow(k)["Age"])
       /\ TwiceSum(KeptRaw("Age"), Len(cleaned_df.rows))
            % (2 * Cardinality({j \in Pos(cleaned_df) : ~isna(RawRow(j)["Age"])})) # 0
  /\ \E k \in Pos(cleaned_df) : RawRow(k)["Age"] = Num(61, 2)

\* A frame on which the three steps of clean_data have all been done (the
\* first is read off raw_df, while raw_df is set).
FullyCleaned(df) ==
  /\ raw_df # None =>
       /\ \A i, j \in Pos(df) :
            i # j => raw_df.rows[df.index[i] + 1] # raw_df.rows[df.index[j] + 1]
       /\ Len(df.rows) = Cardinality({raw_df.rows[k] : k \in Pos(raw_df)})
  /\ \A k \in Pos(df) :
       /\ \A c \in NumericColumns : IsInteger(df.rows[k][c])
       /\ \A c \in {"Name", "Email", "PhoneNumber", "Country"} : df.rows[k][c].t = "str"
       /\ df.rows[k]["JoiningDate"].t \in {"Timestamp", "NaT"}

\* C10: cleaned_df is unset or a table deduplicated, imputed and converted
\* in full; a clean_data that raises, called alone or by run_pipeline,
\* leaves cleaned_df as it was, and run_pipeline then runs no later stage.
C10_AllOrNothing ==
  /\ [](cleaned_df = None \/ FullyCleaned(cleaned_df))
  /\ [][(raised' /\ called' \in {"clean_data", "run_pipeline"})
          => (cleaned_df' = cleaned_df /\ outputs' = outputs)]_vars

\* run_pipeline has raised in clean_data, on a table whose Age or Salary
\* column has rows and no value.
C10_Witness ==
  /\ called = "run_pipeline"
  /\ raised
  /\ raw_df # None
  /\ cleaned_df = None
  /\ outputs = {}
====
